---- MODULE Spec2Model ----
(***************************************************************************)
(* Model of the ECS tag-compliance rule GPSEC_ECS_Tags                     *)
(* (src/example/GPSEC_ECS_Tags/GPSEC_ECS_Tags.py).                         *)
(*                                                                         *)
(* Python strings are TLA+ strings; TLC evaluates Len, \o and SubSeq on    *)
(* them, so every string operation of the rule (substring tests, regular   *)
(* expression searches, str.format, str(list), str.count, slicing) is      *)
(* computed character by character as Python computes it.                  *)
(***************************************************************************)
EXTENDS Integers, Sequences, FiniteSets, TLC

(***************************************************************************)
(* Bounds of the model.                                                    *)
(***************************************************************************)
MaxTaskDefs == 3
MaxClusters == 2
MaxServices == 2
MaxPages == 2
\* length of the padding of a long resource name
LongName == 250
\* length of the padding of a long tag key
LongKey == 100

(***************************************************************************)
(* String primitives.                                                      *)
(***************************************************************************)
Char(s, i) == SubSeq(s, i, i)

\* s[i:] of Python, 1-based
From(s, i) == SubSeq(s, i, Len(s))

\* sub in s
Contains(s, sub) ==
    \E i \in 1..(Len(s) - Len(sub) + 1) : SubSeq(s, i, i + Len(sub) - 1) = sub

\* s.find(sub) + 1: the first position of sub in s, 0 when there is none
Find(s, sub) ==
    LET I == {i \in 1..(Len(s) - Len(sub) + 1) : SubSeq(s, i, i + Len(sub) - 1) = sub}
    IN  IF I = {} THEN 0 ELSE CHOOSE i \in I : \A j \in I : i <= j

UpperLetters == "ABCDEFGHIJKLMNOPQRSTUVWXYZ"
LowerLetters == "abcdefghijklmnopqrstuvwxyz"

LowerChar(c) ==
    LET i == Find(UpperLetters, c) IN IF i = 0 THEN c ELSE Char(LowerLetters, i)

\* str.lower(), character by character (the string is halved to keep the
\* evaluation shallow)
RECURSIVE Lower(_)
Lower(s) ==
    IF Len(s) <= 1 THEN LowerChar(s)
    ELSE LET h == Len(s) \div 2
         IN  Lower(SubSeq(s, 1, h)) \o Lower(From(s, h + 1))

\* \d of the re module
IsDigit(c) == Len(c) = 1 /\ Contains("0123456789", c)

\* \s of the re module
IsSpace(c) == c \in {" ", "\t", "\n", "\r", "\f"}

\* c * n
RECURSIVE Rep(_, _)
Rep(c, n) ==
    IF n <= 0 THEN ""
    ELSE IF n % 2 = 1 THEN c \o Rep(c, n - 1)
    ELSE LET h == Rep(c, n \div 2) IN h \o h

\* s.count(sub): occurrences of sub in s, scanned left to right without overlap
RECURSIVE CountFrom(_, _, _)
CountFrom(s, sub, i) ==
    LET I == {p \in i..(Len(s) - Len(sub) + 1) : SubSeq(s, p, p + Len(sub) - 1) = sub}
    IN  IF I = {} THEN 0
        ELSE LET first == CHOOSE p \in I : \A q \in I : p <= q
             IN  1 + CountFrom(s, sub, first + Len(sub))

Count(s, sub) == CountFrom(s, sub, 1)

\* template.format(*args) for a template whose only fields are "{}"
RECURSIVE Format(_, _)
Format(template, args) ==
    LET i == Find(template, "{}")
    IN  IF i = 0 \/ args = <<>> THEN template
        ELSE SubSeq(template, 1, i - 1) \o args[1]
             \o Format(From(template, i + 2), Tail(args))

\* repr(c) of one character inside the quotes `quote`
ReprChar(c, quote) ==
    CASE c = "\\" -> "\\\\"
      [] c = "\n" -> "\\n"
      [] c = "\t" -> "\\t"
      [] c = "\r" -> "\\r"
      [] c = "\f" -> "\\x0c"
      [] c = quote -> "\\" \o c
      [] OTHER -> c

RECURSIVE ReprBody(_, _)
ReprBody(s, quote) ==
    IF s = "" THEN ""
    ELSE IF Len(s) = 1 THEN ReprChar(s, quote)
    ELSE LET h == Len(s) \div 2
         IN  ReprBody(SubSeq(s, 1, h), quote) \o ReprBody(From(s, h + 1), quote)

\* repr(s) of a str: double quotes only when s holds ' and no "
Repr(s) ==
    LET quote == IF Contains(s, "'") /\ ~Contains(s, "\"") THEN "\"" ELSE "'"
    IN  quote \o ReprBody(s, quote) \o quote

(***************************************************************************)
(* Module constants of the rule.                                           *)
(***************************************************************************)
non_compliant_str == "One or More Tags are NON_COMPLIANT on ECS Resource ({}). Results: ({})"
compliant_str == "Tags are COMPLIANT on ECS Resource ({})"
no_tags_str_compliant == "Tags are COMPLIANT on ECS Resource ({})"
no_tags_str == "NO Tags at all on ECS Resource ({})"
old_arn_str == "({}) uses old ARN and does not support TAGS"

\* the slice bound of every annotation[:255]
MaxAnnotation == 255

minimum_number_compliant == 3

\* re.findall(nameregex, arn) with nameregex = '\/(.*)': the only match starts at
\* the first '/' and its group runs to the end of the line; <<>> when no '/'
NameMatchesLast(arn) ==
    LET P == {i \in 1..Len(arn) : Char(arn, i) = "/"}
    IN  IF P = {} THEN <<>>
        ELSE <<From(arn, (CHOOSE i \in P : \A j \in P : j <= i) + 1)>>
NameMatches(arn) ==
    LET i == Find(arn, "/")
        rest == From(arn, i + 1)
        nl == Find(rest, "\n")
    IN  IF i = 0 THEN <<>>
        ELSE <<IF nl = 0 THEN rest ELSE SubSeq(rest, 1, nl - 1)>>

\* s[:255]
TruncateNot(s) == s
Truncate(s) == IF Len(s) <= MaxAnnotation THEN s ELSE SubSeq(s, 1, MaxAnnotation)

(***************************************************************************)
(* tag_regex_filtering.                                                    *)
(***************************************************************************)
\* re.search("(uai[\d]{7})", value)
UaiSearchSix(value) ==
    \E i \in 1..Len(value) :
        /\ i + 8 <= Len(value)
        /\ SubSeq(value, i, i + 2) = "uai"
        /\ \A k \in (i + 3)..(i + 8) : IsDigit(Char(value, k))
UaiSearch(value) ==
    \E i \in 1..Len(value) :
        /\ i + 9 <= Len(value)
        /\ SubSeq(value, i, i + 2) = "uai"
        /\ \A k \in (i + 3)..(i + 9) : IsDigit(Char(value, k))

EnvWords == <<"prd", "stg", "qa", "tst", "dev", "lab">>

\* $ without re.MULTILINE at position p (the next character is value[p]): the end
\* of the string, or just before a newline that ends the string
AtDollar(value, p) ==
    \/ p = Len(value) + 1
    \/ p = Len(value) /\ Char(value, p) = "\n"

\* re.search("(?:^)(prd|stg|qa|tst|dev|lab)(?:(?= )|$)", value)
EnvSearchPrefix(value) ==
    \E w \in 1..Len(EnvWords) :
        /\ Len(EnvWords[w]) <= Len(value)
        /\ SubSeq(value, 1, Len(EnvWords[w])) = EnvWords[w]
EnvSearch(value) ==
    \E w \in 1..Len(EnvWords) :
        LET word == EnvWords[w]
            p == Len(word) + 1
        IN  /\ Len(word) <= Len(value)
            /\ SubSeq(value, 1, Len(word)) = word
            /\ \/ (p <= Len(value) /\ Char(value, p) = " ")
               \/ AtDollar(value, p)

\* re.search("(\s)", value)
NameSearch(value) == \E i \in 1..Len(value) : IsSpace(Char(value, i))

\* which branch of the if/elif chain a key takes
Category(key) ==
    IF Contains(Lower(key), "uai") THEN "uai"
    ELSE IF Contains(Lower(key), "env") THEN "env"
    ELSE IF Contains(key, "Name") \/ Contains(Lower(key), "app") THEN "name"
    ELSE "none"

\* the entry appended for one tag: the list [key, verdict], or the bare string
\* 'NO_TAGS' (here the one-element <<"NO_TAGS">>)
CheckTag(tag) ==
    LET cat == Category(tag.key)
    IN  CASE cat = "uai" ->
               IF UaiSearch(tag.value) THEN <<tag.key, "COMPLIANT">>
               ELSE <<tag.key, "NON_COMPLIANT">>
          [] cat = "env" ->
               IF EnvSearch(tag.value) THEN <<tag.key, "COMPLIANT">>
               ELSE <<tag.key, "NON_COMPLIANT">>
          [] cat = "name" ->
               IF NameSearch(tag.value) THEN <<tag.key, "NON_COMPLIANT">>
               ELSE <<tag.key, "COMPLIANT">>
          [] OTHER -> <<"NO_TAGS">>

tag_regex_filtering(tags) == [i \in 1..Len(tags) |-> CheckTag(tags[i])]

\* str(entry) of one element of tags_checked
StrEntry(e) ==
    IF Len(e) = 2 THEN "[" \o Repr(e[1]) \o ", " \o Repr(e[2]) \o "]"
    ELSE Repr(e[1])

RECURSIVE StrEntries(_)
StrEntries(es) ==
    IF es = <<>> THEN ""
    ELSE IF Len(es) = 1 THEN StrEntry(es[1])
    ELSE StrEntry(es[1]) \o ", " \o StrEntries(Tail(es))

\* str(tags_compliance)
StrList(es) == "[" \o StrEntries(es) \o "]"

\* str(tags_compliance).count(" 'COMPLIANT']")
ComplianceCount(tags_compliance) == Count(StrList(tags_compliance), " 'COMPLIANT']")

(***************************************************************************)
(* The ECS account the rule walks: the state behind the collaborators      *)
(* list_task_definitions, list_clusters, list_services, describe_services  *)
(* and list_tags_for_resource.  It does not change during a pass.          *)
(***************************************************************************)
Tag(k, v) == [key |-> k, value |-> v]

\* The tag lists a resource of the account may carry.  Keys and values use only
\* the characters ECS accepts in tags (letters, digits, spaces, _ . : / = + - @).
TagSets ==
    << <<>>,
       <<Tag("uai-tag", "uai1234567"), Tag("Environment", "prd"), Tag("Name", "web")>>,
       <<Tag("UAI", "id-uai7654321"), Tag("env", "dev east"), Tag("app", "api"),
         Tag("owner", "bob")>>,
       <<Tag("uai-tag", "uai1234567"), Tag("Environment", "prd"), Tag("Name", "web"),
         Tag("Application", "my app")>>,
       <<Tag("uai-tag", "uai123"), Tag("Environment", "production"), Tag("Name", "web")>>,
       <<Tag("uai-" \o Rep("k", LongKey), "none"), Tag("env-" \o Rep("k", LongKey), "none")>>,
       <<Tag("owner", "bob")>>,
       <<Tag("uai-tag", "uai1234567"), Tag("uai-backup", "uai7654321"),
         Tag("Environment", "lab"), Tag("application", "web")>> >>

NumTagSets == Len(TagSets)

Digit(i) == Char("0123456789", (i % 10) + 1)

ArnPrefix == "arn:aws:ecs:us-east-1:123456789012:"

TdName(i, long) == (IF long THEN Rep("f", LongName) ELSE "users") \o ":" \o Digit(i)
ClName(c, long) == (IF long THEN Rep("c", LongName) ELSE "FargateCluster") \o Digit(c)
SvName(c, j, long) == (IF long THEN Rep("s", LongName) ELSE "api") \o Digit(c) \o Digit(j)

\* A service created before the new ARN format has no cluster segment in its ARN.
SvArn(c, j, long, legacy) ==
    ArnPrefix \o "service/" \o (IF legacy THEN "" ELSE ClName(c, long) \o "/")
    \o SvName(c, j, long)

TagSetAt(n) == TagSets[(n % NumTagSets) + 1]

\* how many services cluster c holds
SvCount(c, sv0) == ((c - 1) * MaxServices + sv0) % (MaxServices + 1)

MkAccount(rot, nTd, nCl, sv0, long) ==
    [ taskDefs |-> [i \in 1..nTd |->
          [arn |-> ArnPrefix \o "task-definition/" \o TdName(i, long),
           tags |-> TagSetAt(rot + i)]],
      clusters |-> [c \in 1..nCl |->
          [arn |-> ArnPrefix \o "cluster/" \o ClName(c, long),
           tags |-> TagSetAt(rot + c),
           services |-> [j \in 1..SvCount(c, sv0) |->
               [serviceArn |-> SvArn(c, j, long, j % 2 = 1),
                serviceName |-> SvName(c, j, long),
                tags |-> TagSetAt(rot + c + j + NumTagSets - 2)]]]] ]

Accounts ==
    { MkAccount(rot, nTd, nCl, sv0, long) :
        rot \in 0..(NumTagSets - 1), nTd \in 0..MaxTaskDefs, nCl \in 0..MaxClusters,
        sv0 \in 0..MaxServices, long \in BOOLEAN }

SeqRange(s) == {s[i] : i \in 1..Len(s)}

RECURSIVE Concat(_)
Concat(ss) == IF ss = <<>> THEN <<>> ELSE ss[1] \o Concat(Tail(ss))

AccountServices(acct) == Concat([c \in 1..Len(acct.clusters) |-> acct.clusters[c].services])

\* the tags the account holds for an ARN
TagsOf(acct, arn) ==
    LET R == {r \in SeqRange(acct.taskDefs) \cup SeqRange(acct.clusters) : r.arn = arn}
        S == {s \in SeqRange(AccountServices(acct)) : s.serviceArn = arn}
    IN  IF R # {} THEN (CHOOSE r \in R : TRUE).tags
        ELSE IF S # {} THEN (CHOOSE s \in S : TRUE).tags
        ELSE <<>>

\* the ways a collaborator may cut a listing into at most n pages: the whole
\* listing in one page, or a non-empty first page, a NextToken and the rest
RECURSIVE Splits(_, _)
Splits(items, n) ==
    {<<items>>} \cup
    (IF n <= 1 THEN {}
     ELSE UNION { { <<SubSeq(items, 1, k)>> \o rest :
                      rest \in Splits(SubSeq(items, k + 1, Len(items)), n - 1) } :
                  k \in 1..(Len(items) - 1) })

(***************************************************************************)
(* fetch_all_items.                                                        *)
(***************************************************************************)
NoError == ""

\* pages: what the collaborator holds for this listing, page i carrying a
\* NextToken iff i < Len(pages); fail: the first call raises.
\* The loop body asks for the attribute "method" of the client, which a boto3
\* client does not have: the first iteration raises AttributeError.
fetch_all_items(method, arg, pages, fail) ==
    IF fail
    THEN [error |-> "ClientError", items |-> <<>>, calls |-> <<[op |-> method, arg |-> arg]>>]
    ELSE LET items == pages[1]
             next_token == Len(pages) > 1
         IN  IF next_token
             THEN [error |-> "AttributeError", items |-> <<>>,
                   calls |-> <<[op |-> method, arg |-> arg]>>]
             ELSE [error |-> NoError, items |-> items,
                   calls |-> <<[op |-> method, arg |-> arg]>>]

(***************************************************************************)
(* The three evaluators.  Each yields what it appends to evaluations (at   *)
(* most one Evaluation), the collaborator calls it made, the exception it  *)
(* left uncaught, and a record of its run (info) for the properties.       *)
(***************************************************************************)
Evaluation(complianceType, resourceId, resourceType, annotation) ==
    [complianceType |-> complianceType, resourceId |-> resourceId,
     resourceType |-> resourceType, annotation |-> annotation]

NoTags == <<>>

Info(kind, arn, name, fetched, tags, ran, tags_compliance, compliance_count, formatted) ==
    [kind |-> kind, arn |-> arn, name |-> name, fetched |-> fetched, tags |-> tags,
     classifier_ran |-> ran, tags_compliance |-> tags_compliance,
     compliance_count |-> compliance_count, formatted |-> formatted]

Raised(error, calls) == [error |-> error, calls |-> calls, appended |-> <<>>, info |-> <<>>]

Appended(calls, complianceType, resource_type, annotation, info) ==
    [error |-> NoError, calls |-> calls,
     appended |-> <<Evaluation(complianceType, info.arn, resource_type, Truncate(annotation))>>,
     info |-> <<info>>]

taskDefinition_eval(task_definition_arn, min_compliant, pages, fail) ==
    LET resource_type == "AWS::ECS::TaskDefinition"
        names == NameMatches(task_definition_arn)
    IN  IF names = <<>> THEN Raised("IndexError", <<>>)
        ELSE
        LET task_definition_name == names[1]
            f == fetch_all_items("list_tags_for_resource", task_definition_arn, pages, fail)
            tags_in_taskDefinition == f.items
            tags_compliance == tag_regex_filtering(tags_in_taskDefinition)
            compliance_count == ComplianceCount(tags_compliance)
            ran(formatted) == Info("TaskDefinition", task_definition_arn, task_definition_name,
                                   TRUE, tags_in_taskDefinition, TRUE, tags_compliance,
                                   compliance_count, formatted)
        IN  IF f.error # NoError THEN Raised(f.error, f.calls)
            ELSE IF Len(tags_in_taskDefinition) = 0
            THEN LET a == Format(no_tags_str, <<task_definition_name>>)
                 IN  Appended(f.calls, "NON_COMPLIANT", resource_type, a,
                              Info("TaskDefinition", task_definition_arn, task_definition_name,
                                   TRUE, tags_in_taskDefinition, FALSE, <<>>, -1, a))
            ELSE IF compliance_count = min_compliant
            THEN LET a == Format(compliant_str, <<task_definition_name>>)
                 IN  Appended(f.calls, "NON_COMPLIANT", resource_type, a, ran(a))
            ELSE LET a == Format(non_compliant_str,
                                 <<task_definition_name, StrList(tags_compliance)>>)
                 IN  Appended(f.calls, "NON_COMPLIANT", resource_type, a, ran(a))

\* sum(map(lambda x : 1 if '/' in x else 0, service_arn))
SlashSum(arn) == Cardinality({i \in 1..Len(arn) : Contains(Char(arn, i), "/")})

NewArnFormatAny(service_arn) == SlashSum(service_arn) > 0
NewArnFormat(service_arn) == SlashSum(service_arn) > 1

service_eval(service_arn, min_compliant, service_name, pages, fail) ==
    LET resource_type == "AWS::ECS::Service"
    IN  IF NewArnFormat(service_arn)
        THEN
        LET f == fetch_all_items("list_tags_for_resource", service_arn, pages, fail)
            tags_in_service == f.items
            tags_compliance == tag_regex_filtering(tags_in_service)
            compliance_count == ComplianceCount(tags_compliance)
            ran(formatted) == Info("Service", service_arn, service_name, TRUE,
                                   tags_in_service, TRUE, tags_compliance,
                                   compliance_count, formatted)
        IN  IF f.error # NoError THEN Raised(f.error, f.calls)
            ELSE IF Len(tags_in_service) = 0
            THEN LET a == Format(no_tags_str, <<service_name>>)
                 IN  Appended(f.calls, "NON_COMPLIANT", resource_type, a,
                              Info("Service", service_arn, service_name, TRUE,
                                   tags_in_service, FALSE, <<>>, -1, a))
            ELSE IF compliance_count = min_compliant
            THEN LET a == Format(compliant_str, <<service_name>>)
                 IN  Appended(f.calls, "NON_COMPLIANT", resource_type, a, ran(a))
            ELSE LET a == Format(non_compliant_str, <<service_name, StrList(tags_compliance)>>)
                 IN  Appended(f.calls, "NON_COMPLIANT", resource_type, a, ran(a))
        ELSE LET a == Format(old_arn_str, <<service_name>>)
             IN  Appended(<<>>, "NON_COMPLIANT", resource_type, a,
                          Info("Service", service_arn, service_name, FALSE, NoTags,
                               FALSE, <<>>, -1, a))

cluster_eval(cluster, min_compliant, clustername, pages, fail) ==
    LET resource_type == "AWS::ECS::Cluster"
        f == fetch_all_items("list_tags_for_resource", cluster, pages, fail)
        tags_in_cluster == f.items
        tags_compliance == tag_regex_filtering(tags_in_cluster)
        compliance_count == ComplianceCount(tags_compliance)
        ran(formatted) == Info("Cluster", cluster, clustername, TRUE, tags_in_cluster,
                               TRUE, tags_compliance, compliance_count, formatted)
    IN  IF f.error # NoError THEN Raised(f.error, f.calls)
        ELSE IF Len(tags_in_cluster) = 0
        THEN LET a == Format(no_tags_str, <<clustername>>)
             IN  Appended(f.calls, "NON_COMPLIANT", resource_type, a,
                          Info("Cluster", cluster, clustername, TRUE, tags_in_cluster,
                               FALSE, <<>>, -1, a))
        ELSE IF compliance_count = min_compliant
        THEN LET a == Format(compliant_str, <<clustername>>)
             IN  Appended(f.calls, "COMPLIANT", resource_type, a, ran(a))
        ELSE LET a == Format(non_compliant_str, <<clustername, StrList(tags_compliance)>>)
             IN  Appended(f.calls, "NON_COMPLIANT", resource_type, a, ran(a))


(***************************************************************************)
(* State.                                                                  *)
(***************************************************************************)
VARIABLES
    account,                 \* the ECS account behind the collaborators
    pc,                      \* where evaluate_periodic stands
    error,                   \* the exception that left evaluate_periodic, or NoError
    list_clusters,
    task_definition_arns,
    evaluations,
    td_i,                    \* position of the loop over task_definition_arns
    cl_i,                    \* position of the loop over list_clusters
    all_services_in_cluster,
    services,                \* list_describe_services['services']
    sv_i,                    \* position of the loop over services
    calls,                   \* every collaborator call made, in order
    returned,                \* what evaluate_periodic returned, once it has
    clean_up_calls,          \* sizes of the batches given to clean_up_old_evaluations
    trace,                   \* one record per evaluator run that appended a verdict
    last_fetch,              \* the latest fetch_all_items call and its outcome
    tags_in,                 \* input of a stand-alone tag_regex_filtering call
    tags_checked             \* its result

vars == <<account, pc, error, list_clusters, task_definition_arns, evaluations, td_i,
          cl_i, all_services_in_cluster, services, sv_i, calls, returned,
          clean_up_calls, trace, last_fetch, tags_in, tags_checked>>

passVars == <<account, pc, error, list_clusters, task_definition_arns, evaluations, td_i,
              cl_i, all_services_in_cluster, services, sv_i, calls, returned,
              clean_up_calls, trace, last_fetch>>

NotReturned == [set |-> FALSE, value |-> <<>>]
NoFetch == [method |-> "", pages |-> <<>>, error |-> NoError, items |-> <<>>]

InitPass(start) ==
    /\ pc = start
    /\ error = NoError
    /\ list_clusters = <<>>
    /\ task_definition_arns = <<>>
    /\ evaluations = <<>>
    /\ td_i = 1
    /\ cl_i = 1
    /\ all_services_in_cluster = <<>>
    /\ services = <<>>
    /\ sv_i = 1
    /\ calls = <<>>
    /\ returned = NotReturned
    /\ clean_up_calls = <<>>
    /\ trace = <<>>
    /\ last_fetch = NoFetch

Init ==
    /\ account \in Accounts
    /\ InitPass("list_clusters")
    /\ tags_in = <<>>
    /\ tags_checked = <<>>

(***************************************************************************)
(* evaluate_periodic, one action per collaborator call or evaluator call.  *)
(***************************************************************************)
\* No try/except anywhere in the rule: an exception raised under
\* evaluate_periodic leaves it at once.
PropagateSwallowed(err, next) == next
Propagate(err, next) == IF err = NoError THEN next ELSE "failed"

Fetched(method, pages, f) ==
    [method |-> method, pages |-> pages, error |-> f.error, items |-> f.items]

\* the head of "for cluster in list_clusters" at position c
ClusterLoop(clusters, c) == IF c <= Len(clusters) THEN "cluster" ELSE "return"

\* the head of "for task_definition_arn in task_definition_arns" at position i
TaskDefLoopShort(tds, clusters, i) ==
    IF i < Len(tds) THEN "task_definitions" ELSE ClusterLoop(clusters, 1)
TaskDefLoop(tds, clusters, i) ==
    IF i <= Len(tds) THEN "task_definitions" ELSE ClusterLoop(clusters, 1)

\* the head of "for service in list_describe_services['services']" at position j
ServiceLoop(svcs, clusters, c, j) ==
    IF j <= Len(svcs) THEN "services" ELSE ClusterLoop(clusters, c + 1)

ListClusters ==
    /\ pc = "list_clusters"
    /\ \E fail \in BOOLEAN :
       \E pages \in Splits([c \in 1..Len(account.clusters) |-> account.clusters[c].arn],
                           MaxPages) :
          LET f == fetch_all_items("list_clusters", "", pages, fail)
          IN  /\ list_clusters' = f.items
              /\ calls' = calls \o f.calls
              /\ last_fetch' = Fetched("list_clusters", pages, f)
              /\ error' = IF f.error # NoError THEN f.error ELSE error
              /\ pc' = Propagate(f.error, "list_task_definitions")
    /\ UNCHANGED <<account, task_definition_arns, evaluations, td_i, cl_i,
                   all_services_in_cluster, services, sv_i, returned, clean_up_calls,
                   trace, tags_in, tags_checked>>

ListTaskDefinitions ==
    /\ pc = "list_task_definitions"
    /\ \E fail \in BOOLEAN :
       \E pages \in Splits([i \in 1..Len(account.taskDefs) |-> account.taskDefs[i].arn],
                           MaxPages) :
          LET f == fetch_all_items("list_task_definitions", "", pages, fail)
          IN  /\ task_definition_arns' = f.items
              /\ calls' = calls \o f.calls
              /\ last_fetch' = Fetched("list_task_definitions", pages, f)
              /\ error' = IF f.error # NoError THEN f.error ELSE error
              /\ td_i' = 1
              /\ pc' = Propagate(f.error, TaskDefLoop(f.items, list_clusters, 1))
    /\ UNCHANGED <<account, list_clusters, evaluations, cl_i, all_services_in_cluster,
                   services, sv_i, returned, clean_up_calls, trace, tags_in, tags_checked>>

\* what an evaluator run leaves behind
Evaluated(r, pages) ==
    /\ evaluations' = evaluations \o r.appended
    /\ trace' = trace \o r.info
    /\ calls' = calls \o r.calls
    /\ last_fetch' = IF r.calls = <<>> THEN last_fetch
                     ELSE [method |-> "list_tags_for_resource", pages |-> pages,
                           error |-> r.error,
                           items |-> IF r.error = NoError THEN pages[1] ELSE <<>>]
    /\ error' = IF r.error # NoError THEN r.error ELSE error

TaskDefinitionEval ==
    /\ pc = "task_definitions"
    /\ td_i <= Len(task_definition_arns)
    /\ \E fail \in BOOLEAN :
          LET task_definition_arn == task_definition_arns[td_i]
              pages == <<TagsOf(account, task_definition_arn)>>
              r == taskDefinition_eval(task_definition_arn, minimum_number_compliant,
                                       pages, fail)
          IN  /\ Evaluated(r, pages)
              /\ td_i' = td_i + 1
              /\ pc' = Propagate(r.error,
                                 TaskDefLoop(task_definition_arns, list_clusters, td_i + 1))
    /\ UNCHANGED <<account, list_clusters, task_definition_arns, cl_i,
                   all_services_in_cluster, services, sv_i, returned, clean_up_calls,
                   tags_in, tags_checked>>

ClusterEval ==
    /\ pc = "cluster"
    /\ cl_i <= Len(list_clusters)
    /\ \E fail \in BOOLEAN :
          LET cluster == list_clusters[cl_i]
              names == NameMatches(cluster)
              pages == <<TagsOf(account, cluster)>>
              r == IF names = <<>> THEN Raised("IndexError", <<>>)
                   ELSE cluster_eval(cluster, minimum_number_compliant, names[1], pages, fail)
          IN  /\ Evaluated(r, pages)
              /\ pc' = Propagate(r.error, "list_services")
    /\ UNCHANGED <<account, list_clusters, task_definition_arns, td_i, cl_i,
                   all_services_in_cluster, services, sv_i, returned, clean_up_calls,
                   tags_in, tags_checked>>

\* the services the account holds in a cluster
ServicesIn(acct, cluster) ==
    LET C == {c \in 1..Len(acct.clusters) : acct.clusters[c].arn = cluster}
    IN  IF C = {} THEN <<>> ELSE acct.clusters[CHOOSE c \in C : TRUE].services

ListServices ==
    /\ pc = "list_services"
    /\ \E fail \in BOOLEAN :
       LET cluster == list_clusters[cl_i]
           held == ServicesIn(account, cluster)
       IN  \E pages \in Splits([j \in 1..Len(held) |-> held[j].serviceArn], MaxPages) :
              LET f == fetch_all_items("list_services", cluster, pages, fail)
              IN  /\ all_services_in_cluster' = f.items
                  /\ calls' = calls \o f.calls
                  /\ last_fetch' = Fetched("list_services", pages, f)
                  /\ error' = IF f.error # NoError THEN f.error ELSE error
                  /\ cl_i' = IF f.error = NoError /\ Len(f.items) = 0 THEN cl_i + 1 ELSE cl_i
                  /\ pc' = Propagate(f.error,
                                     IF Len(f.items) > 0 THEN "describe_services"
                                     ELSE ClusterLoop(list_clusters, cl_i + 1))
    /\ UNCHANGED <<account, list_clusters, task_definition_arns, evaluations, td_i,
                   services, sv_i, returned, clean_up_calls, trace, tags_in, tags_checked>>

\* describe_services(cluster=..., services=arns): the account's records of the
\* services asked for, in the order asked
describe_services(acct, cluster, arns) ==
    LET held == ServicesIn(acct, cluster)
    IN  [i \in 1..Len(arns) |->
           LET s == CHOOSE s \in SeqRange(held) : s.serviceArn = arns[i]
           IN  [serviceArn |-> s.serviceArn, serviceName |-> s.serviceName]]

DescribeServices ==
    /\ pc = "describe_services"
    /\ \E fail \in BOOLEAN :
          LET cluster == list_clusters[cl_i]
              described == IF fail THEN <<>>
                           ELSE describe_services(account, cluster, all_services_in_cluster)
              err == IF fail THEN "ClientError" ELSE NoError
          IN  /\ services' = described
              /\ calls' = Append(calls, [op |-> "describe_services", arg |-> cluster])
              /\ error' = IF fail THEN err ELSE error
              /\ sv_i' = 1
              /\ cl_i' = IF ~fail /\ Len(described) = 0 THEN cl_i + 1 ELSE cl_i
              /\ pc' = Propagate(err, ServiceLoop(described, list_clusters, cl_i, 1))
    /\ UNCHANGED <<account, list_clusters, task_definition_arns, evaluations, td_i,
                   all_services_in_cluster, returned, clean_up_calls, trace, last_fetch,
                   tags_in, tags_checked>>

ServiceEval ==
    /\ pc = "services"
    /\ sv_i <= Len(services)
    /\ \E fail \in BOOLEAN :
          LET service_arn == services[sv_i].serviceArn
              service_name == services[sv_i].serviceName
              pages == <<TagsOf(account, service_arn)>>
              r == service_eval(service_arn, minimum_number_compliant, service_name,
                                pages, fail)
              last == r.error = NoError /\ sv_i + 1 > Len(services)
          IN  /\ Evaluated(r, pages)
              /\ sv_i' = sv_i + 1
              /\ cl_i' = IF last THEN cl_i + 1 ELSE cl_i
              /\ pc' = Propagate(r.error,
                                 ServiceLoop(services, list_clusters, cl_i, sv_i + 1))
    /\ UNCHANGED <<account, list_clusters, task_definition_arns, td_i,
                   all_services_in_cluster, services, returned, clean_up_calls,
                   tags_in, tags_checked>>

\* the end of evaluate_periodic: a non-empty batch is reconciled by
\* clean_up_old_evaluations and returned, an empty one is returned as []
Return ==
    /\ pc = "return"
    /\ \E fail \in BOOLEAN :
          IF evaluations # <<>>
          THEN /\ clean_up_calls' = Append(clean_up_calls, Len(evaluations))
               /\ error' = IF fail THEN "CleanUpError" ELSE error
               /\ returned' = IF fail THEN returned
                              ELSE [set |-> TRUE, value |-> evaluations]
               /\ pc' = Propagate(IF fail THEN "CleanUpError" ELSE NoError, "done")
          ELSE /\ clean_up_calls' = clean_up_calls
               /\ error' = error
               /\ returned' = [set |-> TRUE, value |-> <<>>]
               /\ pc' = "done"
    /\ UNCHANGED <<account, list_clusters, task_definition_arns, evaluations, td_i, cl_i,
                   all_services_in_cluster, services, sv_i, calls, trace, last_fetch,
                   tags_in, tags_checked>>

Next ==
    \/ ListClusters
    \/ ListTaskDefinitions
    \/ TaskDefinitionEval
    \/ ClusterEval
    \/ ListServices
    \/ DescribeServices
    \/ ServiceEval
    \/ Return

Spec == Init /\ [][Next]_vars


(***************************************************************************)
(* tag_regex_filtering on its own: the tag lists it is applied to.         *)
(***************************************************************************)
ProbeKeys ==
    {"uai-tag", "UAI", "myUaiCode", "Environment", "ENV", "uai-env", "Name", "name",
     "app", "Application", "owner", "env-Name"}

ProbeValues ==
    {"uai1234567", "uai123", "uai123456", "uai12345678", "UAI1234567",
     "id uai1234567 x", "uai 1234567", "uai1234x567", "1234567", "",
     "prd", "stg", "qa", "tst", "dev", "lab", "production", "prd east", "prd-east",
     "prdx", " prd", "PRD", "qa1", "my prd", "devlab", "web", "my app"}

ProbeTags == {Tag(k, v) : k \in ProbeKeys, v \in ProbeValues}

ProbeSeconds == {Tag("Environment", "prd"), Tag("uai-tag", "uai12345678")}

ProbeLists ==
    {<<t>> : t \in ProbeTags} \cup {<<t, u>> : t \in ProbeTags, u \in ProbeSeconds}

InitClassifier ==
    /\ account = MkAccount(0, 0, 0, 0, FALSE)
    /\ InitPass("idle")
    /\ tags_in \in ProbeLists
    /\ tags_checked = <<>>

Classify ==
    /\ pc = "idle"
    /\ tags_checked = <<>>
    /\ tags_checked' = tag_regex_filtering(tags_in)
    /\ UNCHANGED passVars
    /\ UNCHANGED tags_in

SpecClassifier == InitClassifier /\ [][Classify]_vars

(***************************************************************************)
(* A pass over an account whose identifiers and tags are any strings: the  *)
(* rule checks nothing about what the client returns, so the evaluators    *)
(* run on whatever keys, values and ARNs they are handed.                  *)
(***************************************************************************)
AnyTagLists ==
    { <<Tag("uai-tag", "uai1234567"), Tag("Environment", "prd"), Tag("Name", "web")>>,
      <<Tag("uai-tag", "uai1234567"), Tag("Environment", "prd"),
        Tag("app 'COMPLIANT']", "my app")>>,
      <<Tag("uai 'COMPLIANT']", "none")>>,
      <<Tag("owner 'COMPLIANT']", "bob"), Tag("Name", "web")>>,
      <<Tag("it's \"app\" 'COMPLIANT']", "web")>>,
      <<Tag("Name 'NON_COMPLIANT']", "web"), Tag("env", "production")>>,
      <<Tag("owner", "bob")>>,
      <<>> }

AnyTaskDefArns ==
    { ArnPrefix \o "task-definition/users:1",
      ArnPrefix \o "task-definition/team/users:1",
      "task-definition/a/b/users:1" }

AnyClusterArns ==
    { ArnPrefix \o "cluster/FargateCluster1",
      ArnPrefix \o "cluster/prod/FargateCluster1",
      "cluster/a/b/FargateCluster1" }

MkAnyAccount(tdArn, clArn, tags, withService) ==
    [ taskDefs |-> <<[arn |-> tdArn, tags |-> tags]>>,
      clusters |-> <<[arn |-> clArn, tags |-> tags,
                      services |-> IF withService
                                   THEN <<[serviceArn |-> ArnPrefix \o "service/prod/api",
                                           serviceName |-> "api", tags |-> tags]>>
                                   ELSE <<>>]>> ]

AnyAccounts ==
    { MkAnyAccount(tdArn, clArn, tags, withService) :
        tdArn \in AnyTaskDefArns, clArn \in AnyClusterArns, tags \in AnyTagLists,
        withService \in BOOLEAN }

InitAny ==
    /\ account \in AnyAccounts
    /\ InitPass("list_clusters")
    /\ tags_in = <<>>
    /\ tags_checked = <<>>

SpecAny == InitAny /\ [][Next]_vars


(***************************************************************************)
(* Vocabulary of the properties, stated without the operators above.       *)
(***************************************************************************)
\* how many digits stand in value from position i on, before the first non-digit
DigitRun(value, i) ==
    Cardinality({n \in 1..(Len(value) - i + 1) :
                   \A k \in i..(i + n - 1) : IsDigit(Char(value, k))})

UaiPositions(value) == {i \in 1..(Len(value) - 2) : SubSeq(value, i, i + 2) = "uai"}

UaiThenExactlySeven(value) == \E i \in UaiPositions(value) : DigitRun(value, i + 3) = 7
UaiThenAtLeastSeven(value) == \E i \in UaiPositions(value) : DigitRun(value, i + 3) >= 7

\* value is one of the environment words, or starts with one followed by a space
EnvWordThenSpaceOrEnd(value) ==
    \E word \in {"prd", "stg", "qa", "tst", "dev", "lab"} :
        \/ value = word
        \/ Len(value) > Len(word) /\ SubSeq(value, 1, Len(word) + 1) = word \o " "

HasUai(key) == Contains(Lower(key), "uai")
HasEnv(key) == Contains(Lower(key), "env")
HasName(key) == Contains(key, "Name") \/ Contains(Lower(key), "app")

First255(s) == IF Len(s) > 255 THEN SubSeq(s, 1, 255) ELSE s

Slashes(arn) == Cardinality({i \in 1..Len(arn) : Char(arn, i) = "/"})

\* the tag list holds exactly one tag of each recognized category, each with a
\* value its category accepts
OnePerCategory(tags) ==
    LET U == {k \in 1..Len(tags) : HasUai(tags[k].key)}
        E == {k \in 1..Len(tags) : ~HasUai(tags[k].key) /\ HasEnv(tags[k].key)}
        N == {k \in 1..Len(tags) :
                ~HasUai(tags[k].key) /\ ~HasEnv(tags[k].key) /\ HasName(tags[k].key)}
    IN  /\ Cardinality(U) = 1 /\ Cardinality(E) = 1 /\ Cardinality(N) = 1
        /\ \A k \in U : UaiThenAtLeastSeven(tags[k].value)
        /\ \A k \in E : EnvWordThenSpaceOrEnd(tags[k].value)
        /\ \A k \in N : \A c \in 1..Len(tags[k].value) :
               Char(tags[k].value, c) \notin {" ", "\t", "\n", "\r", "\f"}

Runs == 1..Len(trace)
RunsOf(kind) == {i \in Runs : trace[i].kind = kind}
Kinds == {"TaskDefinition", "Service", "Cluster"}


(***************************************************************************)
(* Properties.                                                             *)
(***************************************************************************)

\* C1: whatever the resource kind, a fetched tag list holding exactly one tag
\* per recognized category (uai, env, Name/app), each value matching its
\* category's pattern, gives a COMPLIANT count of 3 and a COMPLIANT verdict
\* annotated "Tags are COMPLIANT on ECS Resource (<name>)".
C1_OnePerCategoryIsCompliant ==
    \A i \in Runs :
        (trace[i].fetched /\ OnePerCategory(trace[i].tags)) =>
            /\ trace[i].compliance_count = 3
            /\ evaluations[i].complianceType = "COMPLIANT"
            /\ evaluations[i].annotation =
                 First255("Tags are COMPLIANT on ECS Resource (" \o trace[i].name \o ")")

\* C2: whatever the resource kind, when list_tags_for_resource returns an empty
\* tag list the verdict appended is NON_COMPLIANT, annotated "NO Tags at all on
\* ECS Resource (<name>)" (cut to 255 characters as every annotation is), and
\* tag_regex_filtering is not run for the resource.
C2_NoTagsIsNonCompliant ==
    \A i \in Runs :
        (trace[i].fetched /\ trace[i].tags = <<>>) =>
            /\ evaluations[i].resourceId = trace[i].arn
            /\ evaluations[i].complianceType = "NON_COMPLIANT"
            /\ evaluations[i].annotation =
                 First255("NO Tags at all on ECS Resource (" \o trace[i].name \o ")")
            /\ ~trace[i].classifier_ran

C2_Witness ==
    \A kind \in Kinds :
        \E i \in RunsOf(kind) :
            /\ trace[i].fetched /\ trace[i].tags = <<>>
            /\ evaluations[i].complianceType = "NON_COMPLIANT"

TagFetches(arn) ==
    {n \in 1..Len(calls) : calls[n] = [op |-> "list_tags_for_resource", arg |-> arn]}

RECURSIVE ClusterOrder(_)
ClusterOrder(clusters) ==
    IF clusters = <<>> THEN <<>>
    ELSE <<clusters[1].arn>>
         \o [j \in 1..Len(clusters[1].services) |-> clusters[1].services[j].serviceArn]
         \o ClusterOrder(Tail(clusters))

PassOrder(acct) ==
    [i \in 1..Len(acct.taskDefs) |-> acct.taskDefs[i].arn] \o ClusterOrder(acct.clusters)

\* C4: a pass that returns leaves exactly one verdict per listed task definition,
\* per listed cluster and per described service, in the order: the task
\* definitions as listed, then for each cluster as listed the cluster's verdict
\* followed by the verdicts of its services.
C4_OneVerdictPerResourceInOrder ==
    pc = "done" =>
        /\ returned.set
        /\ returned.value = evaluations
        /\ [i \in 1..Len(evaluations) |-> evaluations[i].resourceId] = PassOrder(account)

C4_Witness ==
    /\ pc = "done"
    /\ Len(account.taskDefs) = 3
    /\ Len(account.clusters) = 2
    /\ Len(account.clusters[1].services) = 0
    /\ Len(account.clusters[2].services) = 2
    /\ Len(returned.value) = 7
    /\ [i \in 1..7 |-> returned.value[i].resourceType] =
         <<"AWS::ECS::TaskDefinition", "AWS::ECS::TaskDefinition",
           "AWS::ECS::TaskDefinition", "AWS::ECS::Cluster", "AWS::ECS::Cluster",
           "AWS::ECS::Service", "AWS::ECS::Service">>

\* C5: a listing the collaborator returns in one or more pages is fetched page
\* after page until a page carries no continuation token, and fetch_all_items
\* returns the items of all pages concatenated in page order.
C5_AllPagesConcatenated ==
    (last_fetch.method # "" /\ last_fetch.error # "ClientError") =>
        /\ last_fetch.error = NoError
        /\ last_fetch.items = Concat(last_fetch.pages)

CollaboratorOps ==
    {"list_clusters", "list_task_definitions", "list_services", "describe_services",
     "list_tags_for_resource"}

\* C6: once a call to list_clusters, list_task_definitions, list_services,
\* describe_services or list_tags_for_resource has failed, the pass is over:
\* nothing is returned (not even the verdicts gathered so far),
\* clean_up_old_evaluations is not called, and the failed call, the last one
\* made, is not made again.
C6_FailFast ==
    error = "ClientError" =>
        /\ pc = "failed"
        /\ returned = NotReturned
        /\ clean_up_calls = <<>>
        /\ calls # <<>>
        /\ calls[Len(calls)].op \in CollaboratorOps
        /\ Cardinality({n \in 1..Len(calls) : calls[n] = calls[Len(calls)]}) = 1

C6_Witness ==
    /\ error = "ClientError"
    /\ pc = "failed"
    /\ calls[Len(calls)].op = "describe_services"
    /\ Len(evaluations) >= 4
    /\ returned = NotReturned

\* C7: every verdict of the batch, whichever evaluator appended it, carries an
\* annotation of at most 255 characters, and when the formatted template is
\* longer than 255 characters the annotation is its first 255 characters.
C7_AnnotationAtMost255 ==
    /\ Len(trace) = Len(evaluations)
    /\ \A i \in 1..Len(evaluations) :
          /\ Len(evaluations[i].annotation) <= 255
          /\ Len(trace[i].formatted) > 255 =>
                evaluations[i].annotation = SubSeq(trace[i].formatted, 1, 255)

C7_Witness ==
    \A kind \in Kinds :
        \E i \in RunsOf(kind) :
            /\ Len(trace[i].formatted) > 255
            /\ Len(evaluations[i].annotation) = 255

Classified == {i \in 1..Len(tags_checked) : TRUE}

\* C8 as stated: a tag whose key contains "uai" (any case) is marked COMPLIANT
\* iff its value contains "uai" followed by exactly 7 digits.
C8_UaiExactlySevenDigits ==
    \A i \in Classified :
        HasUai(tags_in[i].key) =>
            tags_checked[i] =
                <<tags_in[i].key,
                  IF UaiThenExactlySeven(tags_in[i].value) THEN "COMPLIANT"
                  ELSE "NON_COMPLIANT">>

\* C8 as amended: a tag whose key contains "uai" (any case) is marked COMPLIANT
\* iff its value contains "uai" followed by at least 7 digits, NON_COMPLIANT
\* otherwise.
C8_UaiAtLeastSevenDigits ==
    \A i \in Classified :
        HasUai(tags_in[i].key) =>
            tags_checked[i] =
                <<tags_in[i].key,
                  IF UaiThenAtLeastSeven(tags_in[i].value) THEN "COMPLIANT"
                  ELSE "NON_COMPLIANT">>

C8_Witness ==
    /\ \E i \in Classified :
          /\ HasUai(tags_in[i].key)
          /\ tags_in[i].value = "uai12345678"
          /\ tags_checked[i][2] = "COMPLIANT"
    /\ \E i \in Classified :
          /\ HasUai(tags_in[i].key)
          /\ tags_in[i].value = "uai123456"
          /\ tags_checked[i][2] = "NON_COMPLIANT"

C10_AnyNonCompliantTagFails ==
    \A i \in Runs :
        (trace[i].classifier_ran
           /\ \E k \in 1..Len(trace[i].tags_compliance) :
                 /\ Len(trace[i].tags_compliance[k]) = 2
                 /\ trace[i].tags_compliance[k][2] = "NON_COMPLIANT")
        => evaluations[i].complianceType = "NON_COMPLIANT"


\* the entries of tags_compliance whose verdict is COMPLIANT
CompliantEntries(tags_compliance) ==
    {k \in 1..Len(tags_compliance) :
        Len(tags_compliance[k]) = 2 /\ tags_compliance[k][2] = "COMPLIANT"}

\* C11: for any non-empty tag list, whatever its keys and values, the count an
\* evaluator compares with the required count is the number of entries of
\* tag_regex_filtering's result whose verdict is COMPLIANT; NON_COMPLIANT
\* entries, NO_TAGS markers and the text of the keys do not change it.
C11_CountIsCompliantEntries ==
    \A i \in Runs :
        trace[i].classifier_ran =>
            trace[i].compliance_count = Cardinality(CompliantEntries(trace[i].tags_compliance))


SlashPositions(arn) == {i \in 1..Len(arn) : Char(arn, i) = "/"}

AfterFirstSlash(arn) ==
    LET first == CHOOSE i \in SlashPositions(arn) : \A j \in SlashPositions(arn) : i <= j
    IN  IF first = Len(arn) THEN "" ELSE SubSeq(arn, first + 1, Len(arn))

AfterLastSlash(arn) ==
    LET last == CHOOSE i \in SlashPositions(arn) : \A j \in SlashPositions(arn) : j <= i
    IN  IF last = Len(arn) THEN "" ELSE SubSeq(arn, last + 1, Len(arn))

NamedRuns == {i \in RunsOf("TaskDefinition") \cup RunsOf("Cluster") : Slashes(trace[i].arn) >= 1}

\* C12 as stated: for every task-definition and cluster identifier with at
\* least one '/', the display name in the resource's annotation is the text of
\* the identifier after its last '/', so the name holds no '/'.
C12_NameAfterLastSlash ==
    \A i \in NamedRuns :
        /\ trace[i].name = AfterLastSlash(trace[i].arn)
        /\ Slashes(trace[i].name) = 0
        /\ Contains(trace[i].formatted, "(" \o AfterLastSlash(trace[i].arn) \o ")")

\* C12, amended: for every task-definition and cluster identifier with at
\* least one '/', the display name in the resource's annotation is the text of
\* the identifier after its first '/'; an identifier with several '/' keeps the
\* later ones in its name.  The name is looked for in the annotation as
\* formatted, before the cut to 255 characters.
C12_NameAfterFirstSlash ==
    \A i \in NamedRuns :
        /\ trace[i].name = AfterFirstSlash(trace[i].arn)
        /\ Slashes(trace[i].name) = Slashes(trace[i].arn) - 1
        /\ Contains(trace[i].formatted, "(" \o AfterFirstSlash(trace[i].arn) \o ")")

C12_Witness ==
    \A kind \in {"TaskDefinition", "Cluster"} :
        /\ \E i \in RunsOf(kind) :
              /\ Slashes(trace[i].arn) >= 2
              /\ Slashes(trace[i].name) >= 1
              /\ Contains(evaluations[i].annotation, "(" \o trace[i].name \o ")")
        /\ pc = "done"


====
